---- MODULE Spec2Model ----
(***************************************************************************)
(* Concept graph engine of backend/app/concept_graph: the Neo4j store      *)
(* (Concept nodes, typed relationships), ConceptGraphManager's operations  *)
(* on it and PrerequisiteValidator's policy layer.                         *)
(***************************************************************************)
EXTENDS Integers, Sequences, FiniteSets, TLC

\* ------------------------------------------------------------------ bounds

\* Largest number of relationships the store holds (parallel edges counted).
MaxEdges == 2

\* Calls of create_relationship one concurrent caller makes.
MaxCalls == 1

\* Largest count asked of get_next_concepts.
MaxCount == 2

\* Performance records kept for the student-concept pair.
MaxRecords == 11

\* Largest computational_complexity of a difficulty vector.
MaxComplexity == 101

\* Writes to the store whose timestamps are followed.
MaxClock == 2

\* Concept ids a caller can name (uuid strings in the code).
ConceptIds == {"A", "B", "C"}

\* The callers that run create_relationship at the same time.
Callers == {1, 2}

\* ------------------------------------------------------------------ types

\* models.RelationshipType
RelationshipType == {"prerequisite", "builds-upon", "applies-to"}

\* The relationship types of the pattern [:PREREQUISITE|BUILDS_UPON*].
CycleTypes == {"prerequisite", "builds-upon"}

Triples == ConceptIds \X ConceptIds \X RelationshipType

VARIABLES
    nodes,   \* the Concept nodes of the store: id -> the node's properties
    edges,   \* the relationships of the store: triple -> number of parallel edges
    last,    \* the last call that ended: the operation and how it ended
    pc,      \* per caller: the position inside a running create_relationship
    call,    \* per caller: the arguments of its call and the calls it has made
    performance,  \* the PerformanceRecord nodes of one (student, concept), newest first
    stamps   \* the clock and the created_at / updated_at properties, where followed

vars == <<nodes, edges, last, pc, call, performance, stamps>>

\* ------------------------------------------------------------------ store

\* A node written by _create_concept_tx carries every property; a node first
\* written by _import_graph_tx carries every property but subject.
CreatedNode == [has_subject |-> TRUE]

ImportedNode == [has_subject |-> FALSE]

\* The clock at 0 and no timestamp followed.
NoStamps == [now |-> 0, concept |-> <<>>, relationship |-> <<>>]

\* The store without relationships.
EmptyEdges == [tr \in {} |-> 0]

\* The number of relationships of one (source, target, type).
Count(e, tr) == IF tr \in DOMAIN e THEN e[tr] ELSE 0

RECURSIVE SumOver(_, _)
SumOver(f, S) ==
    IF S = {} THEN 0
    ELSE LET x == CHOOSE y \in S : TRUE IN f[x] + SumOver(f, S \ {x})

EdgeCount(e) == SumOver(e, DOMAIN e)

\* CREATE (source)-[r:TYPE]->(target): one more relationship of that triple.
AddEdge(e, tr) ==
    [x \in DOMAIN e \cup {tr} |-> IF x = tr THEN Count(e, tr) + 1 ELSE e[x]]

\* ------------------------------------------------------------ get_concept

\* "None" when no node matches.  A node without subject does not make a
\* Concept (subject is a required field): the call raises instead of returning.
get_concept(n, id) ==
    IF id \notin DOMAIN n THEN "None"
    ELSE IF n[id].has_subject THEN "Concept"
    ELSE "ValidationError"

\* ----------------------------------------------------------- detect_cycle

\* The pattern without its type filter: -[*]->.
SuccessorsAnyType(e, x) ==
    {tr[2] : tr \in {y \in DOMAIN e : y[1] = x}}

\* One hop of the pattern -[:PREREQUISITE|BUILDS_UPON]->.
Successors(e, x) ==
    {tr[2] : tr \in {y \in DOMAIN e : y[1] = x /\ y[3] \in CycleTypes}}

RECURSIVE Expand(_, _)
Expand(e, reached) ==
    LET more == reached \cup UNION {Successors(e, x) : x \in reached}
    IN IF more = reached THEN reached ELSE Expand(e, more)

\* The end nodes of the variable-length pattern (x)-[:PREREQUISITE|BUILDS_UPON*]->(),
\* one hop or more.
ReachableFrom(e, x) == Expand(e, Successors(e, x))

\* MATCH target, MATCH source, MATCH path = (target)-[...*]->(source);
\* count(path) > 0.  No row matches when a node is missing: count is 0.
detect_cycle_tx(n, e, source_id, target_id) ==
    /\ target_id \in DOMAIN n
    /\ source_id \in DOMAIN n
    /\ source_id \in ReachableFrom(e, target_id)

detect_cycle(n, e, source_id, target_id) == detect_cycle_tx(n, e, source_id, target_id)

\* ---------------------------------------------------- create_relationship

\* MATCH source, MATCH target, CREATE (source)-[r:TYPE]->(target): always a
\* new relationship, also beside an equal one.  No row when a node is missing.
create_relationship_tx(n, e, rel) ==
    IF rel[1] \in DOMAIN n /\ rel[2] \in DOMAIN n
    THEN AddEdge(e, rel)
    ELSE e

\* How create_relationship ends: the exception it raises or "returned".
\* The method _invalidate_prerequisite_cache, called after the write, is
\* defined nowhere in the class: the call raises AttributeError.
create_relationship_outcome(n, e, source_id, target_id) ==
    IF get_concept(n, source_id) = "ValidationError" THEN "ValidationError"
    ELSE IF get_concept(n, source_id) = "None" THEN "not_found"
    ELSE IF get_concept(n, target_id) = "ValidationError" THEN "ValidationError"
    ELSE IF get_concept(n, target_id) = "None" THEN "not_found"
    ELSE IF detect_cycle(n, e, source_id, target_id) THEN "cycle"
    ELSE "AttributeError"

\* The outcomes in which create_relationship ran its write transaction.
WroteEdge == {"AttributeError", "returned"}

\* ----------------------------------------------------------- import_graph

\* The keys Concept.from_dict reads.
ConceptFields ==
    {"id", "name", "subject", "class_level", "keywords", "description",
     "difficulty_dna", "created_at", "updated_at"}

\* required_fields of a concept dict in _validate_import_data.
RequiredConceptFields ==
    {"id", "name", "class_level", "keywords", "description", "difficulty_dna"}

\* The keys Relationship.from_dict reads.
RelationshipFields == {"source_id", "target_id", "relationship_type", "created_at"}

\* required_fields of a relationship dict in _validate_import_data.
RequiredRelationshipFields == {"source_id", "target_id", "relationship_type"}

\* A concept dict of a payload: the keys it has, its id, and whether its
\* values pass the Concept constructor (enum members, ranges, ISO timestamps).
ConceptDict(id, fields, values_ok) ==
    [id |-> id, fields |-> fields, values_ok |-> values_ok]

\* A relationship dict of a payload; relationship_type is any string.
RelationshipDict(rel, fields) ==
    [source_id |-> rel[1], target_id |-> rel[2], relationship_type |-> rel[3],
     fields |-> fields]

\* graph_data: has_concepts / has_relationships say that the key is present
\* and holds a list.
GraphData(has_concepts, has_relationships, concepts, relationships) ==
    [has_concepts |-> has_concepts, has_relationships |-> has_relationships,
     concepts |-> concepts, relationships |-> relationships]

Range(seq) == {seq[i] : i \in 1..Len(seq)}

\* _validate_import_data: the kinds of error it collects (empty if valid).
validate_import_data(graph_data) ==
    LET top == (IF graph_data.has_concepts THEN {} ELSE {"concepts"})
                 \cup (IF graph_data.has_relationships THEN {} ELSE {"relationships"})
    IN IF top # {} THEN top
       ELSE {"concept_field" : c \in {d \in Range(graph_data.concepts) :
                                        ~(RequiredConceptFields \subseteq d.fields)}}
            \cup {"relationship_field" : r \in {d \in Range(graph_data.relationships) :
                                        ~(RequiredRelationshipFields \subseteq d.fields)}}

\* Concept.from_dict on every concept dict, Relationship.from_dict on every
\* relationship dict: a missing key or a value the constructor rejects raises.
parse_ok(graph_data) ==
    /\ \A c \in Range(graph_data.concepts) :
           ConceptFields \subseteq c.fields /\ c.values_ok
    /\ \A r \in Range(graph_data.relationships) :
           /\ RelationshipFields \subseteq r.fields
           /\ r.relationship_type \in RelationshipType

\* concept_ids = {c.id for c in concepts}; every relationship end is in it.
references_ok(graph_data) ==
    LET concept_ids == {c.id : c \in Range(graph_data.concepts)}
    IN \A r \in Range(graph_data.relationships) :
           r.source_id \in concept_ids /\ r.target_id \in concept_ids

\* graph[rel.source_id].append(rel.target_id) over the PREREQUISITE and
\* BUILDS_UPON relationships, in payload order.
RECURSIVE adjacency(_, _)
adjacency(relationships, id) ==
    IF relationships = <<>> THEN <<>>
    ELSE LET r == Head(relationships)
             rest == adjacency(Tail(relationships), id)
         IN IF r.relationship_type \in CycleTypes /\ r.source_id = id
            THEN <<r.target_id>> \o rest
            ELSE rest

\* The cycle path of dfs_visit at a back edge node_id -> neighbor_id:
\* cycle = [neighbor_id, node_id]; walk parent from node_id, inserting at
\* index 1, until the parent is neighbor_id or None.
RECURSIVE reconstruct(_, _, _, _)
reconstruct(parent, neighbor_id, current, cycle) ==
    IF parent[current] # neighbor_id /\ parent[current] # "None"
    THEN reconstruct(parent, neighbor_id, parent[current],
                     <<cycle[1], parent[current]>> \o Tail(cycle))
    ELSE cycle

\* dfs_visit with its loop over graph[node_id]; st carries color, parent and
\* the cycle found (<<>> for None).
RECURSIVE dfs_visit(_, _, _)
RECURSIVE dfs_neighbors(_, _, _, _)
dfs_neighbors(graph, st, node_id, i) ==
    IF i > Len(graph[node_id])
    THEN [st EXCEPT !.color[node_id] = "BLACK"]
    ELSE LET neighbor_id == graph[node_id][i]
         IN IF st.color[neighbor_id] = "GRAY"
            THEN [st EXCEPT !.cycle =
                     reconstruct(st.parent, neighbor_id, node_id, <<neighbor_id, node_id>>)]
            ELSE IF st.color[neighbor_id] = "WHITE"
            THEN LET r == dfs_visit(graph, [st EXCEPT !.parent[neighbor_id] = node_id],
                                    neighbor_id)
                 IN IF r.cycle # <<>> THEN r
                    ELSE dfs_neighbors(graph, r, node_id, i + 1)
            ELSE dfs_neighbors(graph, st, node_id, i + 1)

dfs_visit(graph, st, node_id) ==
    dfs_neighbors(graph, [st EXCEPT !.color[node_id] = "GRAY"], node_id, 1)

\* for concept in concepts: if color[concept.id] == WHITE: dfs_visit(...).
RECURSIVE check_components(_, _, _, _)
check_components(graph, st, concepts, i) ==
    IF i > Len(concepts) THEN st
    ELSE IF st.color[concepts[i].id] = "WHITE"
    THEN LET r == dfs_visit(graph, st, concepts[i].id)
         IN IF r.cycle # <<>> THEN r
            ELSE check_components(graph, r, concepts, i + 1)
    ELSE check_components(graph, st, concepts, i + 1)

\* _check_import_for_cycles: the cycle it reports, <<>> when valid.
check_import_for_cycles(concepts, relationships) ==
    LET ids == {c.id : c \in Range(concepts)}
        graph == [id \in ids |-> adjacency(relationships, id)]
        st == [color |-> [id \in ids |-> "WHITE"],
               parent |-> [id \in ids |-> "None"],
               cycle |-> <<>>]
    IN check_components(graph, st, concepts, 1).cycle

\* _import_graph_tx, concepts: MERGE (c:Concept {id}) SET every property but
\* subject.  A node that exists keeps its subject; a new node has none.
import_nodes(n, concepts) ==
    LET ids == {c.id : c \in Range(concepts)}
    IN [x \in DOMAIN n \cup ids |-> IF x \in DOMAIN n THEN n[x] ELSE ImportedNode]

\* _import_graph_tx with CREATE in place of MERGE: every listed relationship is
\* added, also beside an equal one.
RECURSIVE import_edges_create(_, _)
import_edges_create(e, relationships) ==
    IF relationships = <<>> THEN e
    ELSE import_edges_create(
             AddEdge(e, <<Head(relationships).source_id, Head(relationships).target_id,
                          Head(relationships).relationship_type>>),
             Tail(relationships))

\* _import_graph_tx, relationships: MERGE (source)-[r:TYPE]->(target) matches
\* the relationships of that triple if there are any and creates one if not.
import_edges(e, relationships) ==
    LET rels == {<<r.source_id, r.target_id, r.relationship_type>> :
                    r \in Range(relationships)}
    IN [tr \in DOMAIN e \cup rels |-> IF tr \in DOMAIN e THEN e[tr] ELSE 1]

\* import_graph with the commit moved ahead of the cycle check.
import_graph_result_write_first(n, e, graph_data) ==
    IF validate_import_data(graph_data) # {}
    THEN [outcome |-> "structure_error", nodes |-> n, edges |-> e]
    ELSE IF ~parse_ok(graph_data)
    THEN [outcome |-> "parse_error", nodes |-> n, edges |-> e]
    ELSE IF ~references_ok(graph_data)
    THEN [outcome |-> "reference_error", nodes |-> n, edges |-> e]
    ELSE [outcome |-> IF check_import_for_cycles(graph_data.concepts,
                                                 graph_data.relationships) # <<>>
                      THEN "cycle_error" ELSE "imported",
          nodes |-> import_nodes(n, graph_data.concepts),
          edges |-> import_edges(e, graph_data.relationships)]

\* import_graph: how it ends and the store it leaves.
import_graph_result(n, e, graph_data) ==
    IF validate_import_data(graph_data) # {}
    THEN [outcome |-> "structure_error", nodes |-> n, edges |-> e]
    ELSE IF ~parse_ok(graph_data)
    THEN [outcome |-> "parse_error", nodes |-> n, edges |-> e]
    ELSE IF ~references_ok(graph_data)
    THEN [outcome |-> "reference_error", nodes |-> n, edges |-> e]
    ELSE IF check_import_for_cycles(graph_data.concepts, graph_data.relationships) # <<>>
    THEN [outcome |-> "cycle_error", nodes |-> n, edges |-> e]
    ELSE [outcome |-> "imported",
          nodes |-> import_nodes(n, graph_data.concepts),
          edges |-> import_edges(e, graph_data.relationships)]

\* ----------------------------------------------------------------- inputs

RECURSIVE SetToSeq(_)
SetToSeq(S) ==
    IF S = {} THEN <<>>
    ELSE LET x == CHOOSE y \in S : TRUE IN <<x>> \o SetToSeq(S \ {x})

\* The concept list of a payload: a complete dict for every id of S.
ImportConceptList(S) ==
    [i \in 1..Len(SetToSeq(S)) |-> ConceptDict(SetToSeq(S)[i], ConceptFields, TRUE)]

\* The relationship lists of the payloads tried: none, any single relationship,
\* and any two prerequisite relationships that form a chain x -> y -> z
\* (z = x closes a cycle).
ImportRelationshipLists ==
    {<<>>}
    \cup {<<RelationshipDict(tr, RelationshipFields)>> : tr \in Triples}
    \cup {<<RelationshipDict(<<x, y, "prerequisite">>, RelationshipFields),
            RelationshipDict(<<y, z, "prerequisite">>, RelationshipFields)>> :
             x \in ConceptIds, y \in ConceptIds, z \in ConceptIds}

\* Payloads that fail the structural check or the parse.
MalformedPayloads ==
    {GraphData(FALSE, TRUE, <<>>, <<>>),
     GraphData(TRUE, FALSE, <<>>, <<>>),
     GraphData(TRUE, TRUE, <<ConceptDict("A", ConceptFields \ {"name"}, TRUE)>>, <<>>),
     GraphData(TRUE, TRUE, <<ConceptDict("A", RequiredConceptFields, TRUE)>>, <<>>),
     GraphData(TRUE, TRUE, <<ConceptDict("A", ConceptFields, FALSE)>>, <<>>),
     GraphData(TRUE, TRUE, <<ConceptDict("A", ConceptFields, TRUE)>>,
               <<RelationshipDict(<<"A", "A", "applies-to">>, {"source_id", "target_id"})>>),
     GraphData(TRUE, TRUE, <<ConceptDict("A", ConceptFields, TRUE)>>,
               <<RelationshipDict(<<"A", "A", "applies-to">>, RequiredRelationshipFields)>>),
     GraphData(TRUE, TRUE, <<ConceptDict("A", ConceptFields, TRUE)>>,
               <<RelationshipDict(<<"A", "A", "related-to">>, RelationshipFields)>>)}

\* The ids the relationships of a list name.
Ends(relationships) ==
    {r.source_id : r \in Range(relationships)} \cup {r.target_id : r \in Range(relationships)}

\* The concept sets tried with a relationship list: any set with no
\* relationships; else the ends of the relationships, and the ends without the
\* first source (a dangling reference).
ImportConceptSets(relationships) ==
    IF relationships = <<>> THEN SUBSET ConceptIds
    ELSE {Ends(relationships), Ends(relationships) \ {relationships[1].source_id}}

Payloads ==
    UNION {{GraphData(TRUE, TRUE, ImportConceptList(S), rs) : S \in ImportConceptSets(rs)} :
              rs \in ImportRelationshipLists}
    \cup MalformedPayloads

\* ------------------------------------- get_prerequisites, get_dependents

\* The start nodes of one hop (prereq)-[:TYPES]->(x) into a node of S.
Predecessors(e, S, relationship_types) ==
    {tr[1] : tr \in {y \in DOMAIN e : y[2] \in S /\ y[3] \in relationship_types}}

RECURSIVE ExpandBack(_, _, _)
ExpandBack(e, reached, relationship_types) ==
    LET more == reached \cup Predecessors(e, reached, relationship_types)
    IN IF more = reached THEN reached ELSE ExpandBack(e, more, relationship_types)

\* The number of relationships of the given types from one node to another.
DirectCount(e, from, to, relationship_types) ==
    SumOver([ty \in relationship_types |-> Count(e, <<from, to, ty>>)], relationship_types)

\* The rows of the query of _get_prerequisites_tx, as id -> number of rows.
\* recursive: (prereq)-[:TYPES*]->(c), RETURN DISTINCT: one row per start node of
\* a path of one hop or more.  Not recursive: (prereq)-[:TYPES]->(c), RETURN
\* prereq: one row per relationship.  No row when c is not in the store.
prerequisite_rows(n, e, concept_id, recursive, relationship_types) ==
    IF concept_id \notin DOMAIN n THEN <<>>
    ELSE IF recursive
    THEN [p \in ExpandBack(e, Predecessors(e, {concept_id}, relationship_types),
                           relationship_types) |-> 1]
    ELSE [p \in Predecessors(e, {concept_id}, relationship_types) |->
              DirectCount(e, p, concept_id, relationship_types)]

\* The loop of a *_tx query over its rows: a Concept is built from every node,
\* which raises on a node without subject.
concepts_of_rows(n, rows) ==
    IF \E id \in DOMAIN rows : ~n[id].has_subject
    THEN [outcome |-> "ValidationError"]
    ELSE [outcome |-> "returned", concepts |-> rows]

get_prerequisites(n, e, concept_id, recursive, relationship_types) ==
    concepts_of_rows(n, prerequisite_rows(n, e, concept_id, recursive, relationship_types))

\* The rows of the query of _get_dependents_tx: (c)-[:TYPES]->(dependent),
\* RETURN DISTINCT dependent: one row per end node of one hop out of c.
dependent_rows(n, e, concept_id, relationship_types) ==
    IF concept_id \notin DOMAIN n THEN <<>>
    ELSE [t \in {tr[2] : tr \in {y \in DOMAIN e : y[1] = concept_id
                                                   /\ y[3] \in relationship_types}} |-> 1]

get_dependents(n, e, concept_id, relationship_types) ==
    concepts_of_rows(n, dependent_rows(n, e, concept_id, relationship_types))

\* -------------------------------------------------------- check_readiness

\* PrerequisiteValidator.check_readiness: not ready with no unmet prerequisite
\* for a concept that is not found; else the recursive prerequisites that are
\* not in mastered_concepts.  What get_concept or get_prerequisites raises
\* passes through.
check_readiness(n, e, concept_id, mastered_concepts) ==
    IF get_concept(n, concept_id) = "None"
    THEN [outcome |-> "returned", is_ready |-> FALSE, unmet_prerequisites |-> {}]
    ELSE IF get_concept(n, concept_id) # "Concept"
    THEN [outcome |-> get_concept(n, concept_id)]
    ELSE LET prerequisites == get_prerequisites(n, e, concept_id, TRUE, CycleTypes)
         IN IF prerequisites.outcome # "returned"
            THEN [outcome |-> prerequisites.outcome]
            ELSE LET unmet == {p \in DOMAIN prerequisites.concepts :
                                   p \notin mastered_concepts}
                 IN [outcome |-> "returned", is_ready |-> unmet = {},
                     unmet_prerequisites |-> unmet]

\* ----------------------------------------------------------- export_graph

\* The rows of _export_relationships_tx: one per stored relationship, parallel
\* relationships listed one by one.
RECURSIVE ExportRows(_, _)
ExportRows(e, S) ==
    IF S = {} THEN <<>>
    ELSE LET tr == CHOOSE x \in S : TRUE
         IN [i \in 1..e[tr] |-> RelationshipDict(tr, RelationshipFields)]
                \o ExportRows(e, S \ {tr})

\* export_graph: _export_concepts_tx builds a Concept from every node (it
\* raises on a node without subject), Concept.to_dict and Relationship.to_dict
\* write every key; metadata carries the two counts.
export_graph(n, e) ==
    IF \E id \in DOMAIN n : ~n[id].has_subject
    THEN [outcome |-> "ValidationError"]
    ELSE [outcome |-> "exported",
          data |-> GraphData(TRUE, TRUE, ImportConceptList(DOMAIN n),
                             ExportRows(e, DOMAIN e)),
          concept_count |-> Cardinality(DOMAIN n),
          relationship_count |-> EdgeCount(e)]

\* ------------------------------------------------------ learning pathways

\* models.DifficultyDNA.
DifficultyDNA(bloom_level, abstraction_level, computational_complexity, concept_integration, real_world_context, problem_solving_approach) ==
    [bloom_level |-> bloom_level, abstraction_level |-> abstraction_level,
     computational_complexity |-> computational_complexity,
     concept_integration |-> concept_integration,
     real_world_context |-> real_world_context,
     problem_solving_approach |-> problem_solving_approach]

\* integration_map, in hundredths.
integration_map(v) ==
    CASE v = "single" -> 33
      [] v = "multi-concept" -> 67
      [] v = "cross-subject" -> 100
      [] OTHER -> 50

\* approach_map, in hundredths.
approach_map(v) ==
    CASE v = "direct-application" -> 25
      [] v = "multi-step" -> 50
      [] v = "proof-based" -> 75
      [] v = "exploratory" -> 100
      [] OTHER -> 50

\* calculate_difficulty_score, times 6000: 0.25 * bloom / 6 + 0.20 * abstraction / 5
\* + 0.20 * min(complexity / 20, 1) + 0.15 * integration + 0.10 * context / 5
\* + 0.10 * approach.
calculate_difficulty_score(dna) ==
    250 * dna.bloom_level
    + 240 * dna.abstraction_level
    + 60 * (IF dna.computational_complexity > 20 THEN 20 ELSE dna.computational_complexity)
    + 9 * integration_map(dna.concept_integration)
    + 120 * dna.real_world_context
    + 6 * approach_map(dna.problem_solving_approach)

\* A Concept node with the properties the pathway reads.
ConceptNode(has_subject, class_level, difficulty_dna) ==
    [has_subject |-> has_subject, class_level |-> class_level,
     difficulty_dna |-> difficulty_dna]

\* _infer_current_level: 8 with nothing mastered; else the highest class_level
\* of the mastered concepts that get_concept finds, 8 at least.  "raised" when
\* get_concept raises.
RECURSIVE MaxLevel(_, _, _)
MaxLevel(n, S, max_level) ==
    IF S = {} THEN max_level
    ELSE LET id == CHOOSE x \in S : TRUE
         IN MaxLevel(n, S \ {id},
                     IF n[id].class_level > max_level THEN n[id].class_level ELSE max_level)

infer_current_level(n, mastered_concepts) ==
    IF \E id \in mastered_concepts : get_concept(n, id) = "ValidationError"
    THEN [outcome |-> "ValidationError"]
    ELSE [outcome |-> "returned",
          level |-> MaxLevel(n, mastered_concepts \cap DOMAIN n, 8)]

\* query_concepts(ConceptFilters(class_level = level)): MATCH (c:Concept) WHERE
\* c.class_level = $class_level RETURN c, a Concept built from every row.
\* ConceptFilters takes class_level in 8..12 only.
query_concepts(n, class_level) ==
    IF class_level \notin 8..12 THEN [outcome |-> "ValidationError"]
    ELSE IF \E id \in DOMAIN n : n[id].class_level = class_level /\ ~n[id].has_subject
    THEN [outcome |-> "ValidationError"]
    ELSE [outcome |-> "returned",
          concepts |-> SetToSeq({id \in DOMAIN n : n[id].class_level = class_level})]

\* _get_concepts_in_range: for level in range(min_level, max_level + 1).
RECURSIVE get_concepts_in_range(_, _, _)
get_concepts_in_range(n, min_level, max_level) ==
    IF min_level > max_level THEN [outcome |-> "returned", concepts |-> <<>>]
    ELSE LET found == query_concepts(n, min_level)
         IN IF found.outcome # "returned" THEN found
            ELSE LET rest == get_concepts_in_range(n, min_level + 1, max_level)
                 IN IF rest.outcome # "returned" THEN rest
                    ELSE [outcome |-> "returned", concepts |-> found.concepts \o rest.concepts]

\* _filter_by_prerequisites: the concepts of the list whose recursive
\* prerequisites (default types) are all in mastered_concepts, in list order.
RECURSIVE filter_by_prerequisites(_, _, _, _)
filter_by_prerequisites(n, e, concepts, mastered_concepts) ==
    IF concepts = <<>> THEN [outcome |-> "returned", concepts |-> <<>>]
    ELSE LET prerequisites == get_prerequisites(n, e, Head(concepts), TRUE, CycleTypes)
         IN IF prerequisites.outcome # "returned"
            THEN [outcome |-> prerequisites.outcome]
            ELSE LET rest == filter_by_prerequisites(n, e, Tail(concepts), mastered_concepts)
                 IN IF rest.outcome # "returned" THEN rest
                    ELSE [outcome |-> "returned",
                          concepts |->
                              (IF DOMAIN prerequisites.concepts \subseteq mastered_concepts
                               THEN <<Head(concepts)>> ELSE <<>>) \o rest.concepts]

\* The sort key (class_level, calculate_difficulty_score) of a is not after
\* that of b.
KeyNotAfter(n, a, b) ==
    \/ n[a].class_level < n[b].class_level
    \/ /\ n[a].class_level = n[b].class_level
       /\ calculate_difficulty_score(n[a].difficulty_dna)
              <= calculate_difficulty_score(n[b].difficulty_dna)

\* sorted(...) is stable: a concept goes behind the sorted ones whose key is
\* not after its own.
RECURSIVE InsertSorted(_, _, _)
InsertSorted(n, sorted, x) ==
    IF sorted # <<>> /\ KeyNotAfter(n, Head(sorted), x)
    THEN <<Head(sorted)>> \o InsertSorted(n, Tail(sorted), x)
    ELSE <<x>> \o sorted

\* The list as it is, unsorted.
keep_query_order(n, concepts) == concepts

\* _sort_by_difficulty_progression.
RECURSIVE sort_by_difficulty_progression(_, _)
sort_by_difficulty_progression(n, concepts) ==
    IF concepts = <<>> THEN <<>>
    ELSE InsertSorted(n,
                      sort_by_difficulty_progression(n, SubSeq(concepts, 1, Len(concepts) - 1)),
                      concepts[Len(concepts)])

\* generate_pathway(student_id, target_class_level, mastered_concepts).
generate_pathway_result(n, e, target_class_level, mastered_concepts) ==
    IF target_class_level < 8 \/ target_class_level > 12
    THEN [outcome |-> "ValueError"]
    ELSE LET current_level == infer_current_level(n, mastered_concepts)
         IN IF current_level.outcome # "returned" THEN current_level
            ELSE LET candidate_concepts ==
                         get_concepts_in_range(n, current_level.level, target_class_level)
                 IN IF candidate_concepts.outcome # "returned" THEN candidate_concepts
                    ELSE LET available_concepts ==
                                 filter_by_prerequisites(n, e, candidate_concepts.concepts,
                                                         mastered_concepts)
                         IN IF available_concepts.outcome # "returned"
                            THEN available_concepts
                            ELSE [outcome |-> "returned",
                                  concepts |-> sort_by_difficulty_progression(
                                                   n, available_concepts.concepts),
                                  current_level |-> current_level.level]

\* c for c in available_concepts if c.id not in mastered_concepts.
RECURSIVE unmastered(_, _)
unmastered(concepts, mastered_concepts) ==
    IF concepts = <<>> THEN <<>>
    ELSE (IF Head(concepts) \in mastered_concepts THEN <<>> ELSE <<Head(concepts)>>)
             \o unmastered(Tail(concepts), mastered_concepts)

\* get_next_concepts(student_id, count, mastered_concepts), count >= 0.
get_next_concepts_result(n, e, count, mastered_concepts) ==
    LET current_level == infer_current_level(n, mastered_concepts)
    IN IF current_level.outcome # "returned" THEN current_level
       ELSE LET candidate_concepts ==
                    get_concepts_in_range(n, current_level.level,
                                          IF current_level.level + 1 < 12
                                          THEN current_level.level + 1 ELSE 12)
            IN IF candidate_concepts.outcome # "returned" THEN candidate_concepts
               ELSE LET available_concepts ==
                            filter_by_prerequisites(n, e, candidate_concepts.concepts,
                                                    mastered_concepts)
                    IN IF available_concepts.outcome # "returned"
                       THEN available_concepts
                       ELSE LET ordered_concepts ==
                                    sort_by_difficulty_progression(
                                        n, unmastered(available_concepts.concepts,
                                                      mastered_concepts))
                            IN [outcome |-> "returned",
                                concepts |-> SubSeq(ordered_concepts, 1,
                                                    IF count < Len(ordered_concepts)
                                                    THEN count ELSE Len(ordered_concepts)),
                                current_level |-> current_level.level]

\* ---------------------------------------------------------- mastery

\* A PerformanceRecord node, with the properties calculate_mastery reads.
PerformanceRecord(is_correct, bloom_level, abstraction_level) ==
    [is_correct |-> is_correct, bloom_level |-> bloom_level,
     abstraction_level |-> abstraction_level]

\* weights, in hundredths.
weights == <<15, 15, 15, 15, 10, 10, 10, 5, 3, 2>>

\* The query of the pair's records without its LIMIT.
all_records(records, limit) == records

\* MATCH (p:PerformanceRecord {student_id, concept_id}) ...
\* ORDER BY p.timestamp DESC LIMIT limit, on records kept newest first.
most_recent(records, limit) ==
    SubSeq(records, 1, IF Len(records) < limit THEN Len(records) ELSE limit)

\* A floor of two records instead of three.
fewer_than_2(records) == Len(records) < 2

\* len(records) < 3: insufficient data for mastery calculation.
insufficient_data(records) == Len(records) < 3

\* 1.0 if r["is_correct"] else 0.0.
Correct(r) == IF r.is_correct THEN 1 ELSE 0

\* sum(r[field] for r in records), is_correct counted as 1 or 0.
RECURSIVE SumSeq(_, _)
SumSeq(records, field) ==
    IF records = <<>> THEN 0
    ELSE (IF field = "is_correct" THEN Correct(Head(records)) ELSE Head(records)[field])
             + SumSeq(Tail(records), field)

\* The share of correct answers among the records, in hundredths: the
\* weights renormalized over the records present, for all-equal answers.
renormalized_accuracy(records, i) ==
    IF records = <<>> THEN 0
    ELSE (100 * SumSeq(records, "is_correct")) \div Len(records)

\* sum(w * (1.0 if r["is_correct"] else 0.0) for w, r in zip(weights, records)),
\* in hundredths.
RECURSIVE accuracy_score(_, _)
accuracy_score(records, i) ==
    IF i > Len(records) \/ i > Len(weights) THEN 0
    ELSE weights[i] * Correct(records[i]) + accuracy_score(records, i + 1)

\* A mastery level as the fraction num / den.
Level(num, den) == [num |-> num, den |-> den]

\* calculate_mastery on the records of the pair.  With n records fetched the
\* level is counted in units of 1 / (600 * n): accuracy_score and
\* consistency_bonus are hundredths, difficulty_bonus is
\* min(0.1, ((sum bloom / n) / 6 + (sum abstraction / n) / 5) / 2 * 0.1).
calculate_mastery(performance_records) ==
    LET records == most_recent(performance_records, 10)
        n == Len(records)
    IN IF insufficient_data(records) THEN Level(0, 1)
       ELSE LET recent_5 == SubSeq(records, 1, IF 5 < n THEN 5 ELSE n)
                consistency_bonus ==
                    IF 5 * SumSeq(recent_5, "is_correct") >= 4 * Len(recent_5) THEN 10 ELSE 0
                avg_difficulty == 5 * SumSeq(records, "bloom_level") + 6 * SumSeq(records, "abstraction_level")
                difficulty_bonus == IF avg_difficulty > 60 * n THEN 60 * n ELSE avg_difficulty
                mastery == 6 * n * (accuracy_score(records, 1) + consistency_bonus)
                               + difficulty_bonus
            IN Level(IF mastery > 600 * n THEN 600 * n ELSE mastery, 600 * n)

\* is_mastered with the default threshold 0.8: mastery >= threshold.
is_mastered(performance_records) ==
    10 * calculate_mastery(performance_records).num
        >= 8 * calculate_mastery(performance_records).den

\* The thresholds compared strictly.
accuracy_adjustment_strict(correct, total) ==
    IF 10 * correct > 8 * total THEN 5
    ELSE IF 10 * correct < 4 * total THEN -5
    ELSE 0

\* The adjustment for accuracy = correct / total, in tenths: 0.5 if
\* accuracy >= 0.8, -0.5 if accuracy <= 0.4, else 0.0.
accuracy_adjustment(correct, total) ==
    IF 10 * correct >= 8 * total THEN 5
    ELSE IF 10 * correct <= 4 * total THEN -5
    ELSE 0

\* recommend_difficulty_adjustment on the records of the pair, in tenths.
recommend_difficulty_adjustment(performance_records) ==
    LET records == most_recent(performance_records, 5)
    IN IF Len(records) < 3 THEN 0
       ELSE accuracy_adjustment(SumSeq(records, "is_correct"), Len(records))

\* ---------------------------------------------------------- encoder

\* |x - y|.
Abs(x, y) == IF x < y THEN y - x ELSE x - y

\* integration_values of compare.
integration_values(v) ==
    CASE v = "single" -> 0
      [] v = "multi-concept" -> 1
      [] v = "cross-subject" -> 2

\* approach_values of compare.
approach_values(v) ==
    CASE v = "direct-application" -> 0
      [] v = "multi-step" -> 1
      [] v = "proof-based" -> 2
      [] v = "exploratory" -> 3

\* min(abs(c1 - c2) / max_complexity, 1.0) without the cap.
uncapped_complexity_diff(c1, c2) == Abs(c1, c2)

\* min(abs(c1 - c2) / max_complexity, 1.0), in fiftieths.
complexity_diff(c1, c2) == IF Abs(c1, c2) > 50 THEN 50 ELSE Abs(c1, c2)

\* compare, times 6000: 0.25 * bloom_diff / 5 + 0.20 * abstraction_diff / 4
\* + 0.20 * complexity_diff + 0.15 * integration_diff / 2
\* + 0.10 * context_diff / 4 + 0.10 * approach_diff / 3.
compare(dna1, dna2) ==
    300 * Abs(dna1.bloom_level, dna2.bloom_level)
    + 300 * Abs(dna1.abstraction_level, dna2.abstraction_level)
    + 24 * complexity_diff(dna1.computational_complexity, dna2.computational_complexity)
    + 450 * Abs(integration_values(dna1.concept_integration),
                integration_values(dna2.concept_integration))
    + 150 * Abs(dna1.real_world_context, dna2.real_world_context)
    + 200 * Abs(approach_values(dna1.problem_solving_approach),
                approach_values(dna2.problem_solving_approach))

\* int(round(num / den)) for den > 0: round to nearest, ties to even.
int_round(num, den) ==
    LET q == num \div den
        r == num - q * den
    IN IF 2 * r < den THEN q
       ELSE IF 2 * r > den THEN q + 1
       ELSE IF q % 2 = 0 THEN q ELSE q + 1

\* max(lo, min(hi, x)).
clamp(lo, hi, x) == IF x > hi THEN hi ELSE IF x < lo THEN lo ELSE x

\* The new bloom level without the clamp to BLOOM_LEVEL_RANGE.
unclamped_bloom(bloom_level, bloom_adjustment) == bloom_level + bloom_adjustment

\* max(BLOOM_LEVEL_RANGE[0], min(BLOOM_LEVEL_RANGE[1], bloom_level + bloom_adjustment)).
new_bloom(bloom_level, bloom_adjustment) == clamp(1, 6, bloom_level + bloom_adjustment)

\* adjust_difficulty, the adjustment given in hundredths.
adjust_difficulty(dna, adjustment_given) ==
    LET adjustment == clamp(-100, 100, adjustment_given)
        new_integration ==
            IF adjustment > 50
            THEN (CASE dna.concept_integration = "single" -> "multi-concept"
                    [] dna.concept_integration = "multi-concept" -> "cross-subject"
                    [] OTHER -> dna.concept_integration)
            ELSE IF adjustment < -50
            THEN (CASE dna.concept_integration = "cross-subject" -> "multi-concept"
                    [] dna.concept_integration = "multi-concept" -> "single"
                    [] OTHER -> dna.concept_integration)
            ELSE dna.concept_integration
        new_approach ==
            IF adjustment > 50
            THEN (CASE dna.problem_solving_approach = "direct-application" -> "multi-step"
                    [] dna.problem_solving_approach = "multi-step" -> "proof-based"
                    [] dna.problem_solving_approach = "proof-based" -> "exploratory"
                    [] OTHER -> dna.problem_solving_approach)
            ELSE IF adjustment < -50
            THEN (CASE dna.problem_solving_approach = "exploratory" -> "proof-based"
                    [] dna.problem_solving_approach = "proof-based" -> "multi-step"
                    [] dna.problem_solving_approach = "multi-step" -> "direct-application"
                    [] OTHER -> dna.problem_solving_approach)
            ELSE dna.problem_solving_approach
        new_complexity ==
            dna.computational_complexity
                + int_round(3 * adjustment * dna.computational_complexity, 1000)
    IN DifficultyDNA(new_bloom(dna.bloom_level, int_round(2 * adjustment, 100)),
                     clamp(1, 5, dna.abstraction_level + int_round(15 * adjustment, 1000)),
                     IF new_complexity < 1 THEN 1 ELSE new_complexity,
                     new_integration,
                     clamp(1, 5, dna.real_world_context + int_round(adjustment, 100)),
                     new_approach)

\* ---------------------------------------------------------------- actions

Init ==
    /\ nodes = <<>>
    /\ edges = EmptyEdges
    /\ last = [op |-> "none", outcome |-> "none"]
    /\ pc = [p \in Callers |-> "idle"]
    /\ call = [p \in Callers |-> [rel |-> <<>>, made |-> 0]]
    /\ performance = <<>>
    /\ stamps = NoStamps

\* create_concept: a Concept with a fresh uuid4 id, written by CREATE.
create_concept(id) ==
    /\ id \notin DOMAIN nodes
    /\ nodes' = [x \in DOMAIN nodes \cup {id} |-> IF x = id THEN CreatedNode ELSE nodes[x]]
    /\ last' = [op |-> "create_concept", outcome |-> "returned"]
    /\ UNCHANGED <<edges, pc, call, performance, stamps>>

\* create_relationship, run from its first line to its return or raise.
create_relationship(source_id, target_id, rel_type) ==
    \E outcome \in {create_relationship_outcome(nodes, edges, source_id, target_id)} :
       /\ outcome \in WroteEdge => EdgeCount(edges) < MaxEdges
       /\ edges' = IF outcome \in WroteEdge
                   THEN create_relationship_tx(nodes, edges, <<source_id, target_id, rel_type>>)
                   ELSE edges
       /\ last' = [op |-> "create_relationship", outcome |-> outcome]
       /\ UNCHANGED <<nodes, pc, call, performance, stamps>>

\* import_graph, from validation to the commit of _import_graph_tx.
import_graph(graph_data) ==
    \E r \in {import_graph_result(nodes, edges, graph_data)} :
       /\ EdgeCount(r.edges) <= MaxEdges
       /\ nodes' = r.nodes
       /\ edges' = r.edges
       /\ last' = [op |-> "import_graph", outcome |-> r.outcome]
       /\ UNCHANGED <<pc, call, performance, stamps>>

\* One caller after the other: create_concept and create_relationship only.
NextCreate ==
    \/ \E id \in ConceptIds : create_concept(id)
    \/ \E s \in ConceptIds, t \in ConceptIds, ty \in RelationshipType :
           create_relationship(s, t, ty)

SpecCreate == Init /\ [][NextCreate]_vars

\* One caller after the other, every mutation of the graph.
Next ==
    \/ \E id \in ConceptIds : create_concept(id)
    \/ \E s \in ConceptIds, t \in ConceptIds, ty \in RelationshipType :
           create_relationship(s, t, ty)
    \/ \E graph_data \in Payloads : import_graph(graph_data)

Spec == Init /\ [][Next]_vars

\* ------------------------------------------------- concurrent callers

\* The store when the concurrent callers start: A and B created, C absent.
InitConc ==
    /\ nodes = [id \in {"A", "B"} |-> CreatedNode]
    /\ edges = EmptyEdges
    /\ last = [op |-> "none", outcome |-> "none"]
    /\ pc = [p \in Callers |-> "idle"]
    /\ call = [p \in Callers |-> [rel |-> <<>>, made |-> 0]]
    /\ performance = <<>>
    /\ stamps = NoStamps

\* A caller enters create_relationship.
call_create_relationship(p, source_id, target_id, rel_type) ==
    /\ pc[p] = "idle"
    /\ call[p].made < MaxCalls
    /\ pc' = [pc EXCEPT ![p] = "get_source"]
    /\ call' = [call EXCEPT ![p] = [rel |-> <<source_id, target_id, rel_type>>,
                                    made |-> @.made + 1]]
    /\ UNCHANGED <<nodes, edges, last, performance, stamps>>

\* The call of p ends by raising: it leaves create_relationship.
Raise(p, outcome) ==
    /\ pc' = [pc EXCEPT ![p] = "idle"]
    /\ last' = [op |-> "create_relationship", outcome |-> outcome]
    /\ UNCHANGED call

\* source = self.get_concept(source_id), a read transaction of its own.
read_source(p) ==
    /\ pc[p] = "get_source"
    /\ \E found \in {get_concept(nodes, call[p].rel[1])} :
          IF found = "Concept"
          THEN pc' = [pc EXCEPT ![p] = "get_target"] /\ UNCHANGED <<last, call>>
          ELSE Raise(p, IF found = "None" THEN "not_found" ELSE found)
    /\ UNCHANGED <<nodes, edges, performance, stamps>>

\* target = self.get_concept(target_id), a read transaction of its own.
read_target(p) ==
    /\ pc[p] = "get_target"
    /\ \E found \in {get_concept(nodes, call[p].rel[2])} :
          IF found = "Concept"
          THEN pc' = [pc EXCEPT ![p] = "detect_cycle"] /\ UNCHANGED <<last, call>>
          ELSE Raise(p, IF found = "None" THEN "not_found" ELSE found)
    /\ UNCHANGED <<nodes, edges, performance, stamps>>

\* self.detect_cycle(source_id, target_id), a read transaction of its own.
read_cycle(p) ==
    /\ pc[p] = "detect_cycle"
    /\ IF detect_cycle(nodes, edges, call[p].rel[1], call[p].rel[2])
       THEN Raise(p, "cycle")
       ELSE pc' = [pc EXCEPT ![p] = "write"] /\ UNCHANGED <<last, call>>
    /\ UNCHANGED <<nodes, edges, performance, stamps>>

\* session.execute_write(self._create_relationship_tx, relationship).
write_relationship(p) ==
    /\ pc[p] = "write"
    /\ EdgeCount(edges) < MaxEdges
    /\ edges' = create_relationship_tx(nodes, edges, call[p].rel)
    /\ pc' = [pc EXCEPT ![p] = "invalidate"]
    /\ UNCHANGED <<nodes, last, call, performance, stamps>>

\* self._invalidate_prerequisite_cache(source_id): no such method.
invalidate_cache(p) ==
    /\ pc[p] = "invalidate"
    /\ Raise(p, "AttributeError")
    /\ UNCHANGED <<nodes, edges, performance, stamps>>

NextConc ==
    \/ \E p \in Callers, s \in ConceptIds, t \in ConceptIds, ty \in RelationshipType :
           call_create_relationship(p, s, t, ty)
    \/ \E p \in Callers : read_source(p)
    \/ \E p \in Callers : read_target(p)
    \/ \E p \in Callers : read_cycle(p)
    \/ \E p \in Callers : write_relationship(p)
    \/ \E p \in Callers : invalidate_cache(p)

SpecConc == InitConc /\ [][NextConc]_vars

\* ------------------------------------------------- pathway requests

DnaLow == DifficultyDNA(1, 1, 1, "single", 1, "direct-application")

DnaHigh == DifficultyDNA(4, 3, 25, "multi-concept", 2, "multi-step")

\* The nodes of the stores a pathway is asked on: written by create_concept at
\* class 8 (two difficulties), 9 or 12, or first written by import_graph.
PathwayNodes ==
    {ConceptNode(TRUE, 8, DnaLow), ConceptNode(TRUE, 8, DnaHigh),
     ConceptNode(TRUE, 9, DnaLow), ConceptNode(TRUE, 12, DnaLow),
     ConceptNode(FALSE, 8, DnaLow)}

\* The relationships of those stores: none, one of any type between two
\* concepts, or a prerequisite chain over the three.
PathwayEdges ==
    {EmptyEdges}
    \cup {[tr \in {rel} |-> 1] : rel \in {t \in Triples : t[1] # t[2]}}
    \cup {[tr \in {<<p[1], p[2], "prerequisite">>, <<p[2], p[3], "prerequisite">>} |-> 1] :
             p \in {q \in ConceptIds \X ConceptIds \X ConceptIds :
                       q[1] # q[2] /\ q[2] # q[3] /\ q[1] # q[3]}}

\* A store built by create_concept, create_relationship and import_graph.
InitPathway ==
    /\ nodes \in UNION {[S -> PathwayNodes] : S \in SUBSET ConceptIds}
    /\ edges \in {e \in PathwayEdges :
                     \A tr \in DOMAIN e : tr[1] \in DOMAIN nodes /\ tr[2] \in DOMAIN nodes}
    /\ last = [op |-> "none", outcome |-> "none"]
    /\ pc = [p \in Callers |-> "idle"]
    /\ call = [p \in Callers |-> [rel |-> <<>>, made |-> 0]]
    /\ performance = <<>>
    /\ stamps = NoStamps

generate_pathway(target_class_level, mastered_concepts) ==
    \E r \in {generate_pathway_result(nodes, edges, target_class_level, mastered_concepts)} :
       /\ last' = [op |-> "generate_pathway", outcome |-> r.outcome]
       /\ UNCHANGED <<nodes, edges, pc, call, performance, stamps>>

get_next_concepts(count, mastered_concepts) ==
    \E r \in {get_next_concepts_result(nodes, edges, count, mastered_concepts)} :
       /\ last' = [op |-> "get_next_concepts", outcome |-> r.outcome]
       /\ UNCHANGED <<nodes, edges, pc, call, performance, stamps>>

NextPathway ==
    \/ \E target_class_level \in 7..13, mastered_concepts \in SUBSET ConceptIds :
           generate_pathway(target_class_level, mastered_concepts)
    \/ \E count \in 1..MaxCount, mastered_concepts \in SUBSET ConceptIds :
           get_next_concepts(count, mastered_concepts)

SpecPathway == InitPathway /\ [][NextPathway]_vars

\* ------------------------------------------------------- mastery requests

\* Answers recorded: a correct one at the hardest question and a wrong one
\* at the easiest.
Answers == {PerformanceRecord(TRUE, 6, 5), PerformanceRecord(FALSE, 1, 1)}

\* record_performance: CREATE (p:PerformanceRecord {...}) with the newest
\* timestamp of the pair.
record_performance(record) ==
    /\ Len(performance) < MaxRecords
    /\ performance' = <<record>> \o performance
    /\ last' = [op |-> "record_performance", outcome |-> "returned"]
    /\ UNCHANGED <<nodes, edges, pc, call, stamps>>

\* A call of calculate_mastery for the pair.
mastery_level ==
    /\ calculate_mastery(performance).den > 0
    /\ last' = [op |-> "calculate_mastery", outcome |-> "returned"]
    /\ UNCHANGED <<nodes, edges, pc, call, performance, stamps>>

\* A call of is_mastered for the pair, with the default threshold.
mastered ==
    /\ is_mastered(performance) \in BOOLEAN
    /\ last' = [op |-> "is_mastered", outcome |-> "returned"]
    /\ UNCHANGED <<nodes, edges, pc, call, performance, stamps>>

\* A call of recommend_difficulty_adjustment for the pair.
difficulty_adjustment ==
    /\ recommend_difficulty_adjustment(performance) \in Int
    /\ last' = [op |-> "recommend_difficulty_adjustment", outcome |-> "returned"]
    /\ UNCHANGED <<nodes, edges, pc, call, performance, stamps>>

NextMastery ==
    \/ \E record \in Answers : record_performance(record)
    \/ mastery_level
    \/ mastered
    \/ difficulty_adjustment

SpecMastery == Init /\ [][NextMastery]_vars

\* ------------------------------------------------ mastery reads, stepwise

\* The first read of get_mastery_level and of the loop of get_mastery_history:
\* mastery_level = calculate_mastery(student_id, concept_id), in a session of
\* its own.
read_mastery_level(p) ==
    /\ pc[p] = "idle"
    /\ pc' = [pc EXCEPT ![p] = "level_read"]
    /\ call' = [call EXCEPT ![p] = [mastery_level |-> calculate_mastery(performance)]]
    /\ UNCHANGED <<nodes, edges, last, performance, stamps>>

\* The second read: is_mastered = is_mastered(student_id, concept_id), which
\* queries the records again; the response holds both values.
read_is_mastered(p) ==
    /\ pc[p] = "level_read"
    /\ last' = [op |-> "get_mastery_level", outcome |-> "returned",
                mastery_level |-> call[p].mastery_level,
                is_mastered |-> is_mastered(performance)]
    /\ pc' = [pc EXCEPT ![p] = "idle"]
    /\ call' = [call EXCEPT ![p] = [rel |-> <<>>, made |-> 0]]
    /\ UNCHANGED <<nodes, edges, performance, stamps>>

\* One reader, and record_performance calls of other requests at any moment.
NextMasteryRead ==
    \/ \E record \in Answers : record_performance(record)
    \/ \E p \in {CHOOSE c \in Callers : TRUE} : read_mastery_level(p)
    \/ \E p \in {CHOOSE c \in Callers : TRUE} : read_is_mastered(p)

SpecMasteryRead == Init /\ [][NextMasteryRead]_vars

\* ------------------------------------------------------- encoder requests

\* Valid difficulty vectors handed to the encoder.
Vectors ==
    {DifficultyDNA(b, a, c, i, x, p) :
        b \in {1, 3, 6}, a \in {1, 5}, c \in {1, 51, MaxComplexity},
        i \in {"single", "multi-concept", "cross-subject"}, x \in {1, 5},
        p \in {"direct-application", "exploratory"}}

\* Adjustment factors handed to adjust_difficulty, in hundredths.
Adjustments == {-250, -100, -75, -60, -50, -25, 0, 25, 50, 60, 75, 100, 250}

\* A call of DifficultyDNAEncoder.compare.
compare_vectors(dna1, dna2) ==
    /\ last' = [op |-> "compare", outcome |-> "returned", dna1 |-> dna1, dna2 |-> dna2,
                distance |-> compare(dna1, dna2)]
    /\ UNCHANGED <<nodes, edges, pc, call, performance, stamps>>

\* A call of DifficultyDNAEncoder.adjust_difficulty.
adjust(dna, adjustment_given) ==
    /\ last' = [op |-> "adjust_difficulty", outcome |-> "returned", dna |-> dna,
                adjustment |-> adjustment_given,
                adjusted |-> adjust_difficulty(dna, adjustment_given)]
    /\ UNCHANGED <<nodes, edges, pc, call, performance, stamps>>

\* The encoder keeps no state: a behaviour is one call.
NextEncoder ==
    \/ /\ last.op = "none"
       /\ \E dna1 \in Vectors, dna2 \in Vectors : compare_vectors(dna1, dna2)
    \/ /\ last.op = "none"
       /\ \E dna \in Vectors, adjustment_given \in Adjustments : adjust(dna, adjustment_given)

SpecEncoder == Init /\ [][NextEncoder]_vars

\* ------------------------------------------------------------ timestamps

\* The timestamps a payload can carry in created_at and updated_at.
Stamps == 0..MaxClock

\* f with key k set to value v.
Put(f, k, v) == [x \in DOMAIN f \cup {k} |-> IF x = k THEN v ELSE f[x]]

\* create_concept with its timestamps: created_at and updated_at are
\* datetime.utcnow() of the new Concept.
create_concept_stamped(id) ==
    /\ id \notin DOMAIN nodes
    /\ stamps.now < MaxClock
    /\ nodes' = Put(nodes, id, CreatedNode)
    /\ stamps' = [stamps EXCEPT
                     !.now = @ + 1,
                     !.concept = Put(@, id, [created_at |-> stamps.now,
                                             updated_at |-> stamps.now])]
    /\ last' = [op |-> "create_concept", outcome |-> "returned"]
    /\ UNCHANGED <<edges, pc, call, performance>>

\* create_relationship with its timestamp: CREATE ... {created_at} with
\* datetime.utcnow() of the new Relationship, one entry per parallel edge.
create_relationship_stamped(source_id, target_id, rel_type) ==
    \E outcome \in {create_relationship_outcome(nodes, edges, source_id, target_id)},
       tr \in {<<source_id, target_id, rel_type>>} :
       /\ outcome \in WroteEdge => EdgeCount(edges) < MaxEdges /\ stamps.now < MaxClock
       /\ edges' = IF outcome \in WroteEdge
                   THEN create_relationship_tx(nodes, edges, tr)
                   ELSE edges
       /\ stamps' = IF outcome \in WroteEdge
                    THEN [stamps EXCEPT
                             !.now = @ + 1,
                             !.relationship =
                                 Put(@, tr, IF tr \in DOMAIN @ THEN Append(@[tr], stamps.now)
                                            ELSE <<stamps.now>>)]
                    ELSE stamps
       /\ last' = [op |-> "create_relationship", outcome |-> outcome]
       /\ UNCHANGED <<nodes, pc, call, performance>>

\* _import_graph_tx on the timestamps: SET c.created_at, c.updated_at on every
\* merged concept, SET r.created_at on every relationship the MERGE matched or
\* created.  Every dict of the payload carries the timestamp at.
import_stamps(st, graph_data, at) ==
    LET ids == {c.id : c \in Range(graph_data.concepts)}
        rels == {<<r.source_id, r.target_id, r.relationship_type>> :
                    r \in Range(graph_data.relationships)}
    IN [now |-> st.now + 1,
        concept |-> [x \in DOMAIN st.concept \cup ids |->
                        IF x \in ids THEN [created_at |-> at, updated_at |-> at]
                        ELSE st.concept[x]],
        relationship |-> [tr \in DOMAIN st.relationship \cup rels |->
                             IF tr \notin rels THEN st.relationship[tr]
                             ELSE IF tr \in DOMAIN st.relationship
                             THEN [i \in 1..Len(st.relationship[tr]) |-> at]
                             ELSE <<at>>]]

\* The payloads imported with timestamps: those of at most one relationship.
StampedPayloads == {g \in Payloads : Len(g.relationships) <= 1}

\* import_graph with the timestamps of its payload.
import_graph_stamped(graph_data) ==
    \E r \in {import_graph_result(nodes, edges, graph_data)} :
       /\ EdgeCount(r.edges) <= MaxEdges
       /\ r.outcome = "imported" => stamps.now < MaxClock
       /\ nodes' = r.nodes
       /\ edges' = r.edges
       /\ IF r.outcome = "imported"
          THEN \E at \in Stamps : stamps' = import_stamps(stamps, graph_data, at)
          ELSE stamps' = stamps
       /\ last' = [op |-> "import_graph", outcome |-> r.outcome]
       /\ UNCHANGED <<pc, call, performance>>

NextStamps ==
    \/ \E id \in ConceptIds : create_concept_stamped(id)
    \/ \E s \in ConceptIds, t \in ConceptIds, ty \in RelationshipType :
           create_relationship_stamped(s, t, ty)
    \/ \E graph_data \in StampedPayloads : import_graph_stamped(graph_data)

SpecStamps == Init /\ [][NextStamps]_vars

\* ------------------------------------------------------------- properties

\* No concept reaches itself over prerequisite and builds-upon relationships.
Acyclic(e) == \A x \in ConceptIds : x \notin ReachableFrom(e, x)

\* A directed path of one or more prerequisite / builds-upon relationships
\* leads from one concept to the other: the nodes of the path, listed.
PathExists(e, from, to) ==
    \E len \in 2..(Cardinality(ConceptIds) + 1) :
        \E path \in [1..len -> ConceptIds] :
            /\ path[1] = from
            /\ path[len] = to
            /\ \A i \in 1..(len - 1) :
                   \E ty \in CycleTypes : Count(e, <<path[i], path[i + 1], ty>>) > 0

\* C1: after any sequence of create_relationship calls on a store with concepts
\* and no relationships, the prerequisite / builds-upon graph has no directed
\* cycle of any length >= 1.
C1_NoCycleAfterCreateRelationship == Acyclic(edges)

\* C2: create_relationship(X, X, prerequisite) for an existing concept X always
\* ends with the cycle error and stores no X -> X relationship.
C2_SelfLoopRejected ==
    [][\A x \in DOMAIN nodes :
          create_relationship(x, x, "prerequisite")
              => /\ last'.outcome = "cycle"
                 /\ Count(edges', <<x, x, "prerequisite">>) = 0]_vars

\* C3: a create_relationship call that ends by raising leaves the relationships
\* of the store as they were before the call.
C3_RaiseLeavesEdges ==
    [][(last'.op = "create_relationship" /\ last'.outcome # "returned")
          => edges' = edges]_vars

\* C4: create_relationship with both concepts present and no path target => source
\* returns the relationship, and exactly one new source -> target relationship of
\* that type is in the store.
C4_AcceptedReturnsAndAddsOne ==
    [][\A s \in DOMAIN nodes, t \in DOMAIN nodes, ty \in RelationshipType :
          (create_relationship(s, t, ty) /\ ~PathExists(edges, t, s))
              => /\ last'.outcome = "returned"
                 /\ edges' = AddEdge(edges, <<s, t, ty>>)]_vars

\* C5: with the reads and the write of concurrent create_relationship calls
\* interleaved in any order, the calls behave as if one ran after the other: no
\* two distinct concepts end on a common prerequisite / builds-upon cycle (A -> B
\* and B -> A are never both committed).  One caller after the other never
\* stores such a cycle; the cycle of one concept is the matter of C2.
C5_ConcurrentCallsSerialized ==
    \A x \in ConceptIds, y \in ConceptIds :
        x # y => ~(y \in ReachableFrom(edges, x) /\ x \in ReachableFrom(edges, y))

\* C6: a successful import_graph, also into a store that already holds
\* relationships, leaves the prerequisite / builds-upon graph a DAG.
C6_ImportKeepsDag ==
    [][(last'.op = "import_graph" /\ last'.outcome = "imported" /\ Acyclic(edges))
          => Acyclic(edges')]_vars

C8_AppliesToExempt ==
    [][\A s \in ConceptIds, t \in ConceptIds :
          create_relationship(s, t, "applies-to") => last'.outcome # "cycle"]_vars

\* C9: create_relationship with the source id or the target id absent from the
\* store ends with the not-found error, for every type, and writes no relationship.
C9_AbsentIdNotFound ==
    [][\A s \in ConceptIds, t \in ConceptIds, ty \in RelationshipType :
          (create_relationship(s, t, ty) /\ (s \notin DOMAIN nodes \/ t \notin DOMAIN nodes))
              => /\ last'.outcome = "not_found"
                 /\ edges' = edges]_vars

\* C10: an import_graph call that fails at the structural, parse, referential or
\* cycle stage leaves the concepts and the relationships of the store unchanged.
C10_FailedImportWritesNothing ==
    [][(last'.op = "import_graph" /\ last'.outcome # "imported")
          => (nodes' = nodes /\ edges' = edges)]_vars

\* C10 witness: an import_graph call has ended with the cycle error on a store
\* that holds concepts and a relationship.
C10_Witness ==
    /\ last.op = "import_graph"
    /\ last.outcome = "cycle_error"
    /\ DOMAIN nodes # {}
    /\ EdgeCount(edges) > 0

\* The prerequisite / builds-upon edges of a payload, as (source, target) pairs.
ImportedCycleEdges(relationships) ==
    {<<r.source_id, r.target_id>> :
        r \in {d \in Range(relationships) : d.relationship_type \in CycleTypes}}

\* A cycle description names one directed cycle in edge order: every
\* consecutive pair is an imported edge and the last concept leads back to the
\* first (or is the first, repeated).
DescribesCycle(cycle, relationships) ==
    /\ Len(cycle) >= 2
    /\ \A i \in 1..(Len(cycle) - 1) :
           <<cycle[i], cycle[i + 1]>> \in ImportedCycleEdges(relationships)
    /\ \/ cycle[Len(cycle)] = cycle[1]
       \/ <<cycle[Len(cycle)], cycle[1]>> \in ImportedCycleEdges(relationships)

\* C11: when import_graph rejects a payload for a cycle, the cycle it reports
\* names, in edge order, the concepts of one directed cycle of the imported
\* prerequisite / builds-upon relationships and no concept off that cycle.
C11_ReportedCycleIsACycle ==
    [][\A graph_data \in Payloads :
          (import_graph(graph_data) /\ last'.outcome = "cycle_error")
              => DescribesCycle(check_import_for_cycles(graph_data.concepts,
                                                        graph_data.relationships),
                                graph_data.relationships)]_vars

\* import_graph(export_graph()) from the store (n, e) into the store
\* (into_n, into_e) succeeds and the export of the result equals the first.
RoundTrip(n, e, into_n, into_e) ==
    /\ export_graph(n, e).outcome = "exported"
    /\ \E r \in {import_graph_result(into_n, into_e, export_graph(n, e).data)} :
          /\ r.outcome = "imported"
          /\ export_graph(r.nodes, r.edges) = export_graph(n, e)

\* C12: import_graph on the result of export_graph of a non-empty graph succeeds
\* and leaves a graph whose export has the same concept count, relationship
\* count and content, both into the exporting store and into an empty store.
C12_RoundTrip ==
    DOMAIN nodes # {}
        => /\ RoundTrip(nodes, edges, nodes, edges)
           /\ RoundTrip(nodes, edges, <<>>, EmptyEdges)

\* Payloads that list one applies-to relationship twice.
RepeatedRelationshipPayloads ==
    {GraphData(TRUE, TRUE, ImportConceptList({x, y}),
               <<RelationshipDict(<<x, y, "applies-to">>, RelationshipFields),
                 RelationshipDict(<<x, y, "applies-to">>, RelationshipFields)>>) :
        x \in ConceptIds, y \in ConceptIds}

\* The payloads import_graph accepts (its checks do not read the store).
ValidPayloads ==
    {g \in Payloads \cup RepeatedRelationshipPayloads :
        import_graph_result(<<>>, EmptyEdges, g).outcome = "imported"}

\* The (source, target, type) triples a payload lists.
PayloadTriples(graph_data) ==
    {<<r.source_id, r.target_id, r.relationship_type>> :
        r \in Range(graph_data.relationships)}

\* C13: import_graph is idempotent.  From every store, importing a valid payload
\* a second time leaves the store as the first import left it; the import adds
\* one relationship for a listed triple the store did not hold and none for a
\* triple it held.
C13_ImportIdempotent ==
    \A g \in ValidPayloads :
        \E once \in {import_graph_result(nodes, edges, g)} :
            /\ once.outcome = "imported"
            /\ import_graph_result(once.nodes, once.edges, g) = once
            /\ \A tr \in PayloadTriples(g) :
                   Count(once.edges, tr) = IF Count(edges, tr) > 0 THEN Count(edges, tr) ELSE 1

\* C13 witness: the store is the result of an import_graph call whose payload
\* lists relationships, and a payload that lists a stored relationship twice is
\* there to be imported again.
C13_Witness ==
    /\ last.op = "import_graph"
    /\ last.outcome = "imported"
    /\ \E g \in ValidPayloads :
          /\ Len(g.relationships) = 2
          /\ \A tr \in PayloadTriples(g) : Count(edges, tr) > 0
          /\ import_graph_result(nodes, edges, g).nodes = nodes

\* C14: in every store reached through create_relationship and import_graph,
\* get_prerequisites(c, recursive) with the default types returns exactly the
\* concepts from which c is reached over one or more prerequisite / builds-upon
\* relationships, each once and never c itself; not recursive, it returns only
\* the concepts with a direct relationship into c.
C14_PrerequisitesAreTheClosure ==
    \A c \in DOMAIN nodes :
        /\ \E r \in {get_prerequisites(nodes, edges, c, TRUE, CycleTypes)} :
              /\ r.outcome = "returned"
              /\ DOMAIN r.concepts = {p \in DOMAIN nodes : PathExists(edges, p, c)}
              /\ \A p \in DOMAIN r.concepts : r.concepts[p] = 1
              /\ c \notin DOMAIN r.concepts
        /\ \E r \in {get_prerequisites(nodes, edges, c, FALSE, CycleTypes)} :
              /\ r.outcome = "returned"
              /\ DOMAIN r.concepts =
                     {p \in DOMAIN nodes :
                         \E ty \in CycleTypes : Count(edges, <<p, c, ty>>) > 0}

\* The prerequisite closure of a concept: the concepts that precede it over one
\* or more prerequisite / builds-upon relationships.
Closure(e, c) == {p \in ConceptIds : PathExists(e, p, c)}

\* C15: for an existing concept C and any mastered set M, check_readiness
\* returns is_ready = TRUE exactly when the prerequisite closure of C is within
\* M, and unmet_prerequisites is the closure of C minus M.
C15_ReadinessIsClosureMinusMastered ==
    \A c \in DOMAIN nodes, M \in SUBSET ConceptIds :
        \E r \in {check_readiness(nodes, edges, c, M)} :
            /\ r.outcome = "returned"
            /\ r.is_ready = (Closure(edges, c) \subseteq M)
            /\ r.unmet_prerequisites = Closure(edges, c) \ M

\* C16: get_dependents(c) returns the direct successors of c over the requested
\* relationship types (the concepts t with a relationship c -> t), each once, and
\* no concept reached only over two or more relationships.
C16_DependentsAreDirect ==
    \A c \in DOMAIN nodes, types \in (SUBSET RelationshipType) \ {{}} :
        \E r \in {get_dependents(nodes, edges, c, types)} :
            /\ r.outcome = "returned"
            /\ DOMAIN r.concepts =
                   {t \in DOMAIN nodes : \E ty \in types : Count(edges, <<c, t, ty>>) > 0}
            /\ \A t \in DOMAIN r.concepts : r.concepts[t] = 1

\* max(8, highest class_level among the mastered concepts of the store).
CurrentLevel(n, mastered_concepts) ==
    CHOOSE l \in 8..12 :
        /\ l = 8 \/ \E id \in mastered_concepts \cap DOMAIN n : n[id].class_level = l
        /\ \A id \in mastered_concepts \cap DOMAIN n : n[id].class_level <= l

\* C17: the result of generate_pathway(student, target, mastered) holds exactly
\* the stored concepts with class_level in [current_level, target] whose whole
\* recursive prerequisite set is within the mastered set, where current_level =
\* max(8, highest class_level among the mastered concepts).
C17_PathwayIsTheAvailableSet ==
    \A target \in 8..12, M \in SUBSET ConceptIds :
        \E r \in {generate_pathway_result(nodes, edges, target, M)} :
            /\ r.outcome = "returned"
            /\ r.current_level = CurrentLevel(nodes, M)
            /\ Range(r.concepts) =
                   {c \in DOMAIN nodes :
                       /\ nodes[c].class_level >= CurrentLevel(nodes, M)
                       /\ nodes[c].class_level <= target
                       /\ Closure(edges, c) \subseteq M}

\* C18: get_next_concepts(student, count) returns at most count concepts, none
\* of them mastered, each with class_level in [current_level,
\* min(current_level + 1, 12)] and with all recursive prerequisites mastered,
\* ordered by class_level ascending, then difficulty score ascending.
C18_NextConceptsWithinBounds ==
    \A count \in 1..MaxCount, M \in SUBSET ConceptIds :
        \E r \in {get_next_concepts_result(nodes, edges, count, M)} :
            r.outcome = "returned" =>
                /\ Len(r.concepts) <= count
                /\ \A i \in 1..Len(r.concepts) :
                       /\ r.concepts[i] \in DOMAIN nodes \ M
                       /\ nodes[r.concepts[i]].class_level >= CurrentLevel(nodes, M)
                       /\ nodes[r.concepts[i]].class_level <= CurrentLevel(nodes, M) + 1
                       /\ nodes[r.concepts[i]].class_level <= 12
                       /\ Closure(edges, r.concepts[i]) \subseteq M
                /\ \A i \in 1..Len(r.concepts), j \in 1..Len(r.concepts) :
                       i < j =>
                           /\ r.concepts[i] # r.concepts[j]
                           /\ nodes[r.concepts[i]].class_level <= nodes[r.concepts[j]].class_level
                           /\ nodes[r.concepts[i]].class_level = nodes[r.concepts[j]].class_level
                                  => calculate_difficulty_score(nodes[r.concepts[i]].difficulty_dna)
                                         <= calculate_difficulty_score(nodes[r.concepts[j]].difficulty_dna)

\* C18 witness: get_next_concepts has returned on a store where, for one
\* mastered set with a stored mastered concept, two concepts of different
\* difficulty are recommended for count 2 and one of them is cut off by count 1.
C18_Witness ==
    /\ last.op = "get_next_concepts"
    /\ last.outcome = "returned"
    /\ \E M \in SUBSET ConceptIds :
          /\ M \cap DOMAIN nodes # {}
          /\ \E r1 \in {get_next_concepts_result(nodes, edges, 1, M)},
                r2 \in {get_next_concepts_result(nodes, edges, 2, M)} :
                /\ r1.outcome = "returned" /\ Len(r1.concepts) = 1
                /\ r2.outcome = "returned" /\ Len(r2.concepts) = 2
                /\ calculate_difficulty_score(nodes[r2.concepts[1]].difficulty_dna)
                       # calculate_difficulty_score(nodes[r2.concepts[2]].difficulty_dna)

\* The 10 most recent records of a history kept newest first.
Recent10(h) == [i \in 1..(IF Len(h) < 10 THEN Len(h) ELSE 10) |-> h[i]]

\* weighted_accuracy + consistency_bonus + difficulty_bonus over the records
\* rs, in units of 1 / (600 * Len(rs)).
RECURSIVE Total(_, _)
Total(rs, i) ==
    IF i > Len(rs) THEN 0
    ELSE (IF rs[i].is_correct THEN 6 * Len(rs) * weights[i] ELSE 0)
             + 5 * rs[i].bloom_level + 6 * rs[i].abstraction_level
             + Total(rs, i + 1)

\* The sum of the three terms over the records rs, in units of
\* 1 / (600 * Len(rs)), the difficulty bonus capped at 0.1.
SumOfTerms(rs) ==
    LET k == IF Len(rs) < 5 THEN Len(rs) ELSE 5
        right == Cardinality({i \in 1..k : rs[i].is_correct})
        acc == Total([i \in 1..Len(rs) |-> [rs[i] EXCEPT !.bloom_level = 0, !.abstraction_level = 0]], 1)
        diff == Total([i \in 1..Len(rs) |-> [rs[i] EXCEPT !.is_correct = FALSE]], 1)
    IN acc + (IF 10 * right >= 8 * k THEN 60 * Len(rs) ELSE 0)
           + (IF diff > 60 * Len(rs) THEN 60 * Len(rs) ELSE diff)

\* min(1.0, weighted_accuracy + consistency_bonus + difficulty_bonus) over
\* the 10 most recent records of h, as a fraction.
Expected(h) ==
    LET rs == Recent10(h)
        d == 600 * Len(rs)
    IN [num |-> IF SumOfTerms(rs) > d THEN d ELSE SumOfTerms(rs), den |-> d]

\* a.num / a.den = b.num / b.den.
SameLevel(a, b) == a.num * b.den = b.num * a.den

\* C19 as stated: for a history of any length calculate_mastery is in [0,1]
\* and equals min(1.0, weighted_accuracy + consistency_bonus +
\* difficulty_bonus) over the 10 most recent records.
C19_MasteryIsTheFormula ==
    Len(performance) >= 1 =>
        /\ calculate_mastery(performance).num >= 0
        /\ calculate_mastery(performance).num <= calculate_mastery(performance).den
        /\ SameLevel(calculate_mastery(performance), Expected(performance))

\* C19 amended: calculate_mastery is always in [0,1]; for a history of at
\* least 3 records it equals min(1.0, weighted_accuracy + consistency_bonus +
\* difficulty_bonus) over the 10 most recent records, and for fewer it is 0.
C19_MasteryIsTheFormulaFrom3 ==
    /\ calculate_mastery(performance).num >= 0
    /\ calculate_mastery(performance).num <= calculate_mastery(performance).den
    /\ Len(performance) >= 3 =>
           SameLevel(calculate_mastery(performance), Expected(performance))
    /\ Len(performance) < 3 => calculate_mastery(performance).num = 0

\* calculate_mastery has been asked of 11 records, the oldest a wrong answer
\* and the 10 after it correct ones at the hardest question: the sum of the
\* terms is above 1 and the record outside the 10 most recent is left out.
C19_Witness ==
    /\ last.op = "calculate_mastery"
    /\ Len(performance) = 11
    /\ ~performance[11].is_correct
    /\ \A i \in 1..10 : performance[i] = PerformanceRecord(TRUE, 6, 5)
    /\ SumOfTerms(Recent10(performance)) > 6000
    /\ calculate_mastery(performance).num = calculate_mastery(performance).den

C21_BelowOneUnder10Records ==
    Len(performance) < 10 =>
        calculate_mastery(performance).num < calculate_mastery(performance).den

\* C21 amended: with fewer than 10 records the weighted accuracy is strictly
\* below 1.0, and with fewer than 6 records calculate_mastery is at most 0.9.
C21_BelowOneUnder6Records ==
    /\ Len(performance) < 10 => accuracy_score(most_recent(performance, 10), 1) < 100
    /\ Len(performance) < 6 =>
           10 * calculate_mastery(performance).num <= 9 * calculate_mastery(performance).den

\* calculate_mastery has been asked of 5 correct answers at the hardest
\* question: 0.7 + 0.1 + 0.1.
C21_Witness ==
    /\ last.op = "calculate_mastery"
    /\ performance = [i \in 1..5 |-> PerformanceRecord(TRUE, 6, 5)]
    /\ SameLevel(calculate_mastery(performance), Level(9, 10))

\* The correct answers among the first k records of a history.
CorrectAmong(h, k) == Cardinality({i \in 1..k : h[i].is_correct})

\* C22: recommend_difficulty_adjustment is 0 with fewer than 3 records, and
\* otherwise, over the 5 most recent records, +0.5 when accuracy >= 0.8,
\* -0.5 when accuracy <= 0.4 and 0 in between.
C22_AdjustmentByAccuracy ==
    LET k == IF Len(performance) < 5 THEN Len(performance) ELSE 5
        right == CorrectAmong(performance, k)
        r == recommend_difficulty_adjustment(performance)
    IN /\ r \in {-5, 0, 5}
       /\ Len(performance) < 3 => r = 0
       /\ Len(performance) >= 3 /\ 5 * right >= 4 * k => r = 5
       /\ Len(performance) >= 3 /\ 5 * right <= 2 * k => r = -5
       /\ Len(performance) >= 3 /\ 5 * right < 4 * k /\ 5 * right > 2 * k => r = 0

\* recommend_difficulty_adjustment has been asked of a history whose 5 most
\* recent records hold 4 correct answers (accuracy exactly 0.8) and whose
\* older records are all wrong.
C22_Witness ==
    /\ last.op = "recommend_difficulty_adjustment"
    /\ Len(performance) = 8
    /\ CorrectAmong(performance, 5) = 4
    /\ CorrectAmong(performance, 8) = 4
    /\ recommend_difficulty_adjustment(performance) = 5

\* Every dimension of a and b is maximally different: bloom by 5, abstraction
\* by 4, complexity by 50 or more, integration by 2, context by 4, approach
\* by 3.
MaximallyDifferent(a, b) ==
    /\ Abs(a.bloom_level, b.bloom_level) = 5
    /\ Abs(a.abstraction_level, b.abstraction_level) = 4
    /\ Abs(a.computational_complexity, b.computational_complexity) >= 50
    /\ {a.concept_integration, b.concept_integration} = {"single", "cross-subject"}
    /\ Abs(a.real_world_context, b.real_world_context) = 4
    /\ {a.problem_solving_approach, b.problem_solving_approach}
           = {"direct-application", "exploratory"}

\* C23: the distance of two valid vectors is in [0,1], is 0 for a vector and
\* itself, and is 1 only when every dimension is maximally different.
C23_DistanceBounds ==
    last.op = "compare" =>
        /\ last.distance >= 0
        /\ last.distance <= 6000
        /\ last.dna1 = last.dna2 => last.distance = 0
        /\ last.distance = 6000 => MaximallyDifferent(last.dna1, last.dna2)

\* compare has returned 1 for two vectors whose complexities differ by 100.
C23_Witness ==
    /\ last.op = "compare"
    /\ Abs(last.dna1.computational_complexity, last.dna2.computational_complexity) = 100
    /\ MaximallyDifferent(last.dna1, last.dna2)
    /\ last.distance = 6000

\* C24: adjust(v, +1.0) does not lower bloom_level, adjust(v, -1.0) does not
\* raise it, every result has bloom_level in [1,6], and the result is a new
\* vector built from v.
C24_AdjustBloom ==
    last.op = "adjust_difficulty" =>
        /\ last.adjusted.bloom_level >= 1
        /\ last.adjusted.bloom_level <= 6
        /\ last.adjustment >= 100 => last.adjusted.bloom_level >= last.dna.bloom_level
        /\ last.adjustment <= -100 => last.adjusted.bloom_level <= last.dna.bloom_level
        /\ last.dna \in Vectors

\* adjust_difficulty has been asked to raise a vector of bloom_level 6 by a
\* factor above 1.0: the factor and the level are both clamped.
C24_Witness ==
    /\ last.op = "adjust_difficulty"
    /\ last.adjustment = 250
    /\ last.dna.bloom_level = 6
    /\ last.adjusted.bloom_level = 6

\* A payload in the serialized format: both lists present, every concept dict
\* with the required fields and valid values, every relationship dict with the
\* required fields and a relationship type of the enum.
SerializedFormat(graph_data) ==
    /\ graph_data.has_concepts
    /\ graph_data.has_relationships
    /\ \A c \in Range(graph_data.concepts) :
           RequiredConceptFields \subseteq c.fields /\ c.values_ok
    /\ \A r \in Range(graph_data.relationships) :
           /\ RequiredRelationshipFields \subseteq r.fields
           /\ r.relationship_type \in RelationshipType

\* C25: a payload in the serialized format whose relationship ends are all in
\* its concept list and whose relationships hold no cycle is accepted by
\* import_graph and committed.
C25_SerializedFormatAccepted ==
    [][\A graph_data \in Payloads :
          (/\ import_graph(graph_data)
           /\ SerializedFormat(graph_data)
           /\ references_ok(graph_data)
           /\ check_import_for_cycles(graph_data.concepts, graph_data.relationships) = <<>>)
              => /\ last'.outcome = "imported"
                 /\ {c.id : c \in Range(graph_data.concepts)} \subseteq DOMAIN nodes']_vars

\* C26: no step changes the created_at of a stored relationship or of a stored
\* concept, or lowers the updated_at of a stored concept.
C26_TimestampsKept ==
    [][/\ \A tr \in DOMAIN stamps.relationship :
              \A i \in 1..Len(stamps.relationship[tr]) :
                  stamps'.relationship[tr][i] = stamps.relationship[tr][i]
       /\ \A id \in DOMAIN stamps.concept :
              /\ stamps'.concept[id].created_at = stamps.concept[id].created_at
              /\ stamps'.concept[id].updated_at >= stamps.concept[id].updated_at]_vars

\* What get_prerequisites and get_dependents return for a concept of the store
\* that has no prerequisite and no dependent: the empty list.
EmptyResult == [outcome |-> "returned", concepts |-> <<>>]

\* C27: for an id that is not in the store, get_prerequisites and
\* get_dependents do not return the empty list of a concept without
\* prerequisites, and check_readiness does not return the result of a concept
\* without prerequisites (ready, nothing unmet).
C27_AbsentIdNotAnEmptyResult ==
    \A concept_id \in ConceptIds \ DOMAIN nodes :
        /\ \A recursive \in BOOLEAN :
               get_prerequisites(nodes, edges, concept_id, recursive, CycleTypes) # EmptyResult
        /\ get_dependents(nodes, edges, concept_id, CycleTypes) # EmptyResult
        /\ check_readiness(nodes, edges, concept_id, {})
               # [outcome |-> "returned", is_ready |-> TRUE, unmet_prerequisites |-> {}]

\* C28: in every response of get_mastery_level (and every MasteryRecord of
\* get_mastery_history) is_mastered = (mastery_level >= threshold), with the
\* default threshold 0.8.
C28_MasteryResponseConsistent ==
    last.op = "get_mastery_level" =>
        (last.is_mastered <=> 10 * last.mastery_level.num >= 8 * last.mastery_level.den)

\* C29: the store holds at most one relationship per (source, target, type),
\* and export_graph lists no triple twice.
C29_OneEdgePerTriple ==
    /\ \A tr \in DOMAIN edges : Count(edges, tr) <= 1
    /\ export_graph(nodes, edges).outcome = "exported" =>
           \A i \in 1..Len(export_graph(nodes, edges).data.relationships) :
               \A j \in 1..Len(export_graph(nodes, edges).data.relationships) :
                   export_graph(nodes, edges).data.relationships[i]
                       = export_graph(nodes, edges).data.relationships[j] => i = j

\* C30: every concept node of the store carries the attributes get_concept
\* needs: get_concept of a stored id returns the concept, also for a concept
\* that import_graph wrote.
C30_StoredConceptsAreReadable ==
    \A id \in DOMAIN nodes : get_concept(nodes, id) = "Concept"

====
